---- MODULE Spec2Model ----
(***************************************************************************)
(* A model of totp-web: the RateLimiter class and the generateTOTP /       *)
(* verifyTOTP pipeline of the library entry point (web-totp.ts).           *)
(*                                                                         *)
(* JavaScript runs every synchronous function to completion, so each       *)
(* RateLimiter method (none of them awaits) is one atomic action.          *)
(* Date.now() is the variable now; it never goes backwards.                *)
(***************************************************************************)
EXTENDS Integers, Sequences, FiniteSets, TLC

\* ---------------------------------------------------------------------
\* Bounds of the model
\* ---------------------------------------------------------------------
MaxTime == 3
MaxAttemptsBound == 2
MaxWindowMs == 2
MaxLimited == 2

Keys == {"alice", "bob"}
\* the key whose calls the history variables record
Observed == "alice"
Callers == {1, 2}

VARIABLES
    attempts,      \* RateLimiter.attempts : Map<string, {count, timestamp}>
    maxAttempts,   \* RateLimiter.maxAttempts (readonly)
    windowMs,      \* RateLimiter.windowMs (readonly)
    now,           \* Date.now()
    ret,           \* the call just made: operation, key and what it returned
    admitted,      \* history: calls of the observed key admitted in its current window
    limitedCalls,  \* history: calls of the observed key refused in its current window
    admittedBy,    \* history: the callers admitted in that window
    origin,        \* history: what started that window
    priorLimited,  \* history: calls refused in the window before that one
    admitTimes     \* history: times of the observed key's admitted calls since its last reset

rlVars == <<attempts, maxAttempts, windowMs, now, ret, admitted, limitedCalls,
            admittedBy, origin, priorLimited, admitTimes>>

VARIABLES
    clock,         \* Date.now() as read by generateTOTP and verifyTOTP
    config,        \* the option fields the caller supplies to both calls
    genWin,        \* options.window of the generateTOTP call, when supplied
    verWin,        \* options.window of the verifyTOTP call, when supplied
    pc,            \* where the caller of generate-then-verify stands
    gen,           \* TOTPResult of generateTOTP, with the clock it read
    ver,           \* outcome of verifyTOTP, with the token and the clock it read
    ticks,         \* clock steps taken between the two calls
    again          \* TOTPResult of a second generateTOTP call

totpVars == <<clock, config, genWin, verWin, pc, gen, ver, ticks, again>>

VARIABLES
    arg,           \* the argument a function of the engine is applied to
    res            \* what the function returned

pureVars == <<arg, res>>

VARIABLES
    handler,       \* each handleVerify invocation: where it stands and what it saw
    invoked,       \* history: verifyTOTP invocations in the key's current limiter window
    succeeded      \* history: some verification has returned true

protoVars == <<handler, invoked, succeeded>>

vars == <<rlVars, totpVars, pureVars, protoVars>>

\* ---------------------------------------------------------------------
\* RateLimiter
\* ---------------------------------------------------------------------
\* Map.get of a missing key is undefined
NoEntry == [count |-> -1, timestamp |-> -1]

EmptyMap == [k \in {} |-> NoEntry]

MapGet(map, key) == IF key \in DOMAIN map THEN map[key] ELSE NoEntry

\* one entry object shared by every key
MapSet_shared(map, key, e) == [k \in (DOMAIN map) \cup {key} |-> e]

MapSet(map, key, e) ==
    [k \in (DOMAIN map) \cup {key} |-> IF k = key THEN e ELSE map[k]]

Max(a, b) == IF a >= b THEN a ELSE b

\* now - attempt.timestamp > this.windowMs
windowHasPassed(attempt, t) == t - attempt.timestamp > windowMs

\* the limit test off by one: one call too many is admitted
atOrOverLimit_strict(attempt) == attempt.count > maxAttempts

\* attempt.count >= this.maxAttempts
atOrOverLimit(attempt) == attempt.count >= maxAttempts

\* the incremented count is not stored (a lost update)
isRateLimited_lostUpdate(map, key, t) ==
    LET attempt == MapGet(map, key) IN
    IF attempt = NoEntry \/ windowHasPassed(attempt, t)
    THEN [limited |-> FALSE,
          attempts |-> MapSet(map, key, [count |-> 1, timestamp |-> t])]
    ELSE IF atOrOverLimit(attempt)
    THEN [limited |-> TRUE, attempts |-> map]
    ELSE [limited |-> FALSE, attempts |-> map]

\* the count is incremented before the limit is tested
isRateLimited_countFirst(map, key, t) ==
    LET attempt == MapGet(map, key) IN
    IF attempt = NoEntry \/ windowHasPassed(attempt, t)
    THEN [limited |-> FALSE,
          attempts |-> MapSet(map, key, [count |-> 1, timestamp |-> t])]
    ELSE [limited |-> atOrOverLimit(attempt),
          attempts |-> MapSet(map, key, [count |-> attempt.count + 1,
                                         timestamp |-> attempt.timestamp])]

\* the limit is tested before the expiry of the window
isRateLimited_limitFirst(map, key, t) ==
    LET attempt == MapGet(map, key) IN
    IF attempt = NoEntry
    THEN [limited |-> FALSE,
          attempts |-> MapSet(map, key, [count |-> 1, timestamp |-> t])]
    ELSE IF atOrOverLimit(attempt)
    THEN [limited |-> TRUE, attempts |-> map]
    ELSE IF windowHasPassed(attempt, t)
    THEN [limited |-> FALSE,
          attempts |-> MapSet(map, key, [count |-> 1, timestamp |-> t])]
    ELSE [limited |-> FALSE,
          attempts |-> MapSet(map, key, [count |-> attempt.count + 1,
                                         timestamp |-> attempt.timestamp])]

\* isRateLimited(key): the returned value and the map it leaves
isRateLimited(map, key, t) ==
    LET attempt == MapGet(map, key) IN
    IF attempt = NoEntry
    THEN [limited |-> FALSE,
          attempts |-> MapSet(map, key, [count |-> 1, timestamp |-> t])]
    ELSE IF windowHasPassed(attempt, t)
    THEN [limited |-> FALSE,
          attempts |-> MapSet(map, key, [count |-> 1, timestamp |-> t])]
    ELSE IF atOrOverLimit(attempt)
    THEN [limited |-> TRUE, attempts |-> map]
    ELSE [limited |-> FALSE,
          attempts |-> MapSet(map, key, [count |-> attempt.count + 1,
                                         timestamp |-> attempt.timestamp])]

\* reset stores the entry of a first attempt
reset_countOne(map, key, t) == MapSet(map, key, [count |-> 1, timestamp |-> t])

\* reset(key)
reset(map, key, t) == MapSet(map, key, [count |-> 0, timestamp |-> t])

\* the elapsed window is not looked at
getRemainingAttempts_noExpiry(map, key, t) ==
    LET attempt == MapGet(map, key) IN
    IF attempt = NoEntry THEN maxAttempts
    ELSE Max(0, maxAttempts - attempt.count)

\* getRemainingAttempts(key)
getRemainingAttempts(map, key, t) ==
    LET attempt == MapGet(map, key) IN
    IF attempt = NoEntry THEN maxAttempts
    ELSE IF windowHasPassed(attempt, t) THEN maxAttempts
    ELSE Max(0, maxAttempts - attempt.count)

\* getTimeUntilReset(key)
getTimeUntilReset(map, key, t) ==
    LET attempt == MapGet(map, key) IN
    IF attempt = NoEntry THEN 0
    ELSE LET timeElapsed == t - attempt.timestamp IN
         IF timeElapsed > windowMs THEN 0
         ELSE windowMs - timeElapsed

\* ---------------------------------------------------------------------
\* Strings are sequences of one-character strings
\* ---------------------------------------------------------------------
base32Chars ==
    <<"A","B","C","D","E","F","G","H","I","J","K","L","M","N","O","P",
      "Q","R","S","T","U","V","W","X","Y","Z","2","3","4","5","6","7">>

LowerCase ==
    <<"a","b","c","d","e","f","g","h","i","j","k","l","m","n","o","p",
      "q","r","s","t","u","v","w","x","y","z">>

DecimalCharSet == <<"0","1","2","3","4","5","6","7","8","9">>

UndefinedText == <<"u","n","d","e","f","i","n","e","d">>

\* String.prototype.indexOf for one character: 0-based, -1 when missing
IndexOf(chars, c) ==
    LET hits == {i \in 1..Len(chars) : chars[i] = c}
    IN IF hits = {} THEN -1
       ELSE (CHOOSE i \in hits : \A j \in hits : i <= j) - 1

\* the characters secrets and tokens are written in
Characters ==
    {base32Chars[i] : i \in 1..Len(base32Chars)}
        \cup {LowerCase[i] : i \in 1..Len(LowerCase)}
        \cup {DecimalCharSet[i] : i \in 1..Len(DecimalCharSet)}
        \cup {"-", "=", " "}

\* String.prototype.toUpperCase for one character
ToUpperCase(c) ==
    LET k == IndexOf(LowerCase, c)
    IN IF k >= 0 THEN base32Chars[k + 1] ELSE c

\* c.toUpperCase(), tabulated for every character
UpperCaseOf == [c \in Characters |-> ToUpperCase(c)]

\* base32Chars.indexOf(c), tabulated for every character
Base32IndexOf == [c \in Characters |-> IndexOf(base32Chars, c)]

\* lower-case letters are removed with the other characters
Cleaned_caseSensitive(str) ==
    LET IsBase32(c) == Base32IndexOf[c] >= 0
    IN SelectSeq(str, IsBase32)

\* str.replace(/[^A-Z2-7]/gi, "").toUpperCase()
Cleaned(str) ==
    LET IsBase32(c) == Base32IndexOf[c] >= 0
    IN SelectSeq([i \in 1..Len(str) |-> UpperCaseOf[str[i]]], IsBase32)

Pow2(n) == 2 ^ n

\* toUint8Array: the loop over the cleaned secret.  The 32-bit accumulator
\* value is kept as two 16-bit halves hi and lo (value = hi * 2^16 + lo).
RECURSIVE DecodeFrom(_, _, _, _, _)
DecodeFrom(cleaned, i, hi, lo, bits) ==
    IF i > Len(cleaned) THEN <<>>
    ELSE LET idx == Base32IndexOf[cleaned[i]]
             \* value = (value << 5) | idx
             lo2 == ((lo * 32) % 65536) + idx
             hi2 == (hi * 32 + (lo * 32) \div 65536) % 65536
             bits2 == bits + 5
         IN IF bits2 >= 8
            THEN LET sh == bits2 - 8
                     \* (value >>> (bits - 8)) & 0xff
                     byte == (lo2 \div Pow2(sh)
                              + (hi2 % 256) * Pow2(16 - sh)) % 256
                 IN <<byte>> \o DecodeFrom(cleaned, i + 1, hi2, lo2, bits2 - 8)
            ELSE DecodeFrom(cleaned, i + 1, hi2, lo2, bits2)

toUint8Array(str) == DecodeFrom(Cleaned(str), 1, 0, 0, 0)

\* intToBytes of a counter given by its four 16-bit limbs, most significant
\* first (num = l[1] * 2^48 + l[2] * 2^32 + l[3] * 2^16 + l[4]):
\* setUint32 stores num modulo 2^32 at offset 4
intToBytesOfLimbs(l) ==
    <<0, 0, 0, 0, l[3] \div 256, l[3] % 256, l[4] \div 256, l[4] % 256>>

\* intToBytes: 8 bytes, the counter as a big-endian uint32 at offset 4
intToBytes(num) ==
    intToBytesOfLimbs(<<0, 0, (num \div 65536) % 65536, num % 65536>>)

\* generateRandomSecret: one symbol per random byte
generateRandomSecret(bytes) ==
    [i \in 1..Len(bytes) |-> base32Chars[(bytes[i] % 32) + 1]]

\* length of the digest of each hash
HashLength(algorithm) ==
    IF algorithm = "SHA-1" THEN 20
    ELSE IF algorithm = "SHA-256" THEN 32
    ELSE 64

RECURSIVE Absorb(_, _)
Absorb(h, bytes) ==
    IF bytes = <<>> THEN h
    ELSE Absorb((h * 31 + Head(bytes) + 7) % 65521, Tail(bytes))

\* crypto.subtle.importKey + crypto.subtle.sign("HMAC", key, message): a
\* deterministic digest of the key and the message, stood in for by a
\* mixing function of the right length
HmacSign(algorithm, keyData, message) ==
    LET n == HashLength(algorithm)
        h == Absorb(Absorb(n, keyData), message)
    IN [i \in 1..n |-> ((h + i) * 167 + (h \div 256) * i + i * i) % 256]

\* hash[j] with a 0-based index
At(hash, j) == hash[j + 1]

\* the decimal text of a non-negative integer
RECURSIVE NumberToString(_)
NumberToString(n) ==
    IF n < 10 THEN <<DecimalCharSet[n + 1]>>
    ELSE NumberToString(n \div 10) \o <<DecimalCharSet[(n % 10) + 1]>>

\* String.prototype.padStart
RECURSIVE PadStart(_, _, _)
PadStart(str, len, c) ==
    IF Len(str) >= len THEN str ELSE PadStart(<<c>> \o str, len, c)

\* the four bytes are combined as a signed 32-bit integer: a negative
\* value has a negative remainder, which indexes no symbol
CustomSymbol_signed(hash, i, charSet) ==
    LET L == Len(charSet)
        n == Len(hash)
        b0 == At(hash, (i * 4) % n)
        b1 == At(hash, (i * 4 + 1) % n)
        b2 == At(hash, (i * 4 + 2) % n)
        b3 == At(hash, (i * 4 + 3) % n)
    IN IF L = 0 THEN UndefinedText
       ELSE LET r == ((((((b0 % L) * 256 + b1) % L) * 256 + b2) % L) * 256
                        + b3) % L
                \* 2^32 modulo L
                wrap == ((65536 % L) * (65536 % L)) % L
            IN IF b0 < 128 THEN <<charSet[r + 1]>>
               ELSE IF (wrap + L - r) % L = 0 THEN <<charSet[1]>>
               ELSE UndefinedText

\* one symbol of a custom-alphabet token: charSet[value % charSetLength]
\* for the unsigned 32-bit value of four hash bytes; the remainder is taken
\* byte by byte so that no intermediate exceeds 31 bits
CustomSymbol(hash, i, charSet) ==
    LET L == Len(charSet)
        n == Len(hash)
        b0 == At(hash, (i * 4) % n)
        b1 == At(hash, (i * 4 + 1) % n)
        b2 == At(hash, (i * 4 + 2) % n)
        b3 == At(hash, (i * 4 + 3) % n)
    IN IF L = 0 THEN UndefinedText
       ELSE LET r == ((((((b0 % L) * 256 + b1) % L) * 256 + b2) % L) * 256
                        + b3) % L
            IN <<charSet[r + 1]>>

RECURSIVE CustomToken(_, _, _, _)
CustomToken(hash, i, digits, charSet) ==
    IF i >= digits THEN <<>>
    ELSE CustomSymbol(hash, i, charSet)
             \o CustomToken(hash, i + 1, digits, charSet)

\* the code is not padded to the number of digits
DecimalToken_unpadded(hash, digits) ==
    LET offset == At(hash, Len(hash) - 1) % 16
        code == (At(hash, offset) % 128) * 16777216
                + At(hash, offset + 1) * 65536
                + At(hash, offset + 2) * 256
                + At(hash, offset + 3)
    IN NumberToString(code % (10 ^ digits))

\* the standard HOTP truncation of the numeric path
DecimalToken(hash, digits) ==
    LET offset == At(hash, Len(hash) - 1) % 16
        code == (At(hash, offset) % 128) * 16777216
                + At(hash, offset + 1) * 65536
                + At(hash, offset + 2) * 256
                + At(hash, offset + 3)
    IN PadStart(NumberToString(code % (10 ^ digits)), digits, "0")

\* generateHOTP after the signature: the token read off the hash
TokenFromHash(hash, digits, charSet) ==
    IF charSet # DecimalCharSet
    THEN CustomToken(hash, 0, digits, charSet)
    ELSE DecimalToken(hash, digits)

\* generateHOTP(secret, counter, algorithm, digits, charSet)
generateHOTP(secret, counter, algorithm, digits, charSet) ==
    LET keyData == toUint8Array(secret)
        counterBytes == intToBytes(counter)
        hash == HmacSign(algorithm, keyData, counterBytes)
    IN TokenFromHash(hash, digits, charSet)

\* the exception generateHOTP ends with, "none" when it returns a token:
\* crypto.subtle.importKey rejects a zero-length HMAC key
generateHOTPError(secret) ==
    IF Len(toUint8Array(secret)) = 0 THEN "DataError" ELSE "none"

Has(options, f) == f \in DOMAIN options

\* options.f || dflt for a number
OrNumber(options, f, dflt) ==
    IF Has(options, f) /\ options[f] # 0 THEN options[f] ELSE dflt

\* options.f || dflt for a string
OrString(options, f, dflt) ==
    IF Has(options, f) /\ options[f] # <<>> THEN options[f] ELSE dflt

\* the default of a destructured field: used only when the field is undefined
Defaulted(options, f, dflt) == IF Has(options, f) THEN options[f] ELSE dflt

\* the counter advances with every second instead of every period
generateTOTP_perSecond(options, t, randomBytes) ==
    LET secret == IF Has(options, "secret") /\ options["secret"] # <<>>
                  THEN options["secret"]
                  ELSE generateRandomSecret(randomBytes)
        period == OrNumber(options, "period", 30)
        currentTime == t \div 1000
        counter == currentTime + OrNumber(options, "window", 0)
    IN [token |-> generateHOTP(secret, counter,
                               IF Has(options, "algorithm")
                               THEN options["algorithm"] ELSE "SHA-1",
                               OrNumber(options, "digits", 6),
                               OrString(options, "charSet", DecimalCharSet)),
        secret |-> secret,
        remainingSeconds |-> period - (currentTime % period)]

\* the seconds elapsed in the period are returned as the remaining ones
generateTOTP_elapsed(options, t, randomBytes) ==
    LET secret == IF Has(options, "secret") /\ options["secret"] # <<>>
                  THEN options["secret"]
                  ELSE generateRandomSecret(randomBytes)
        period == OrNumber(options, "period", 30)
        currentTime == t \div 1000
        counter == currentTime \div period + OrNumber(options, "window", 0)
    IN [token |-> generateHOTP(secret, counter,
                               IF Has(options, "algorithm")
                               THEN options["algorithm"] ELSE "SHA-1",
                               OrNumber(options, "digits", 6),
                               OrString(options, "charSet", DecimalCharSet)),
        secret |-> secret,
        remainingSeconds |-> currentTime % period]

\* generateTOTP(options) reading Date.now() = t, with the bytes
\* crypto.getRandomValues would deliver
generateTOTP(options, t, randomBytes) ==
    LET secret == IF Has(options, "secret") /\ options["secret"] # <<>>
                  THEN options["secret"]
                  ELSE generateRandomSecret(randomBytes)
        window == OrNumber(options, "window", 0)
        algorithm == IF Has(options, "algorithm") /\ options["algorithm"] # ""
                     THEN options["algorithm"]
                     ELSE "SHA-1"
        digits == OrNumber(options, "digits", 6)
        charSet == OrString(options, "charSet", DecimalCharSet)
        period == OrNumber(options, "period", 30)
        currentTime == t \div 1000
        counter == currentTime \div period + window
    IN [token |-> generateHOTP(secret, counter, algorithm, digits, charSet),
        secret |-> secret,
        remainingSeconds |-> period - (currentTime % period)]

\* the exception generateTOTP(options) ends with, "none" when it returns
generateTOTPError(options, randomBytes) ==
    generateHOTPError(IF Has(options, "secret") /\ options["secret"] # <<>>
                      THEN options["secret"]
                      ELSE generateRandomSecret(randomBytes))

\* only the current and the later periods are tried
verifyTOTP_forwardOnly(token, options, t) ==
    LET window == Defaulted(options, "window", 1)
        current == t \div (1000 * Defaulted(options, "period", 30))
    IN \E errorWindow \in 0..window :
          generateHOTP(options["secret"], current + errorWindow,
                       Defaulted(options, "algorithm", "SHA-1"),
                       Defaulted(options, "digits", 6),
                       Defaulted(options, "charSet", DecimalCharSet)) = token

\* a token is accepted when it is as long as the expected code
verifyTOTP_lengthOnly(token, options, t) ==
    LET window == Defaulted(options, "window", 1)
        current == t \div (1000 * Defaulted(options, "period", 30))
    IN \E errorWindow \in (0 - window)..window :
          Len(generateHOTP(options["secret"], current + errorWindow,
                           Defaulted(options, "algorithm", "SHA-1"),
                           Defaulted(options, "digits", 6),
                           Defaulted(options, "charSet", DecimalCharSet)))
              = Len(token)

\* an explicit window of 0 is replaced by the default
verifyTOTP_windowOr(token, options, t) ==
    LET window == OrNumber(options, "window", 1)
        current == t \div (1000 * Defaulted(options, "period", 30))
    IN \E errorWindow \in (0 - window)..window :
          generateHOTP(options["secret"], current + errorWindow,
                       Defaulted(options, "algorithm", "SHA-1"),
                       Defaulted(options, "digits", 6),
                       Defaulted(options, "charSet", DecimalCharSet)) = token

\* verifyTOTP(token, options) reading Date.now() = t
verifyTOTP(token, options, t) ==
    LET secret == options["secret"]
        window == Defaulted(options, "window", 1)
        algorithm == Defaulted(options, "algorithm", "SHA-1")
        digits == Defaulted(options, "digits", 6)
        charSet == Defaulted(options, "charSet", DecimalCharSet)
        period == Defaulted(options, "period", 30)
        \* Math.floor(Date.now() / 1000 / period)
        current == IF period = 0 THEN 0 ELSE t \div (1000 * period)
        \* with period 0 the quotient and every candidate are Infinity
        \* (NaN at time 0), which setUint32 stores as 0
        Candidate(errorWindow) ==
            IF period = 0 THEN 0 ELSE current + errorWindow
    IN \E errorWindow \in (0 - window)..window :
          generateHOTP(secret, Candidate(errorWindow), algorithm, digits,
                       charSet) = token

\* the exception verifyTOTP(token, options) ends with, "none" when it
\* returns: the first generateHOTP call of the loop fails on a secret that
\* is undefined or decodes to no byte
verifyTOTPError(token, options) ==
    IF Defaulted(options, "window", 1) < 0 THEN "none"
    ELSE IF ~Has(options, "secret") THEN "TypeError"
    ELSE generateHOTPError(options["secret"])

\* ---------------------------------------------------------------------
\* The state machine of one RateLimiter instance
\* ---------------------------------------------------------------------
NoCall == [op |-> "none", key |-> "", limited |-> FALSE, num |-> 0]

NoResult == [token |-> <<>>, secret |-> <<>>, remainingSeconds |-> 0,
             time |-> 0, random |-> <<>>, threw |-> "none"]

NoVerdict == [result |-> FALSE, time |-> 0, token |-> <<>>, threw |-> "none"]

NoWindow == [given |-> FALSE, val |-> 0]

MaxHandlers == 3

\* the invocations of handleVerify that may be in flight together
Handlers == 1..MaxHandlers

IdleHandler == [pc |-> "idle", limited |-> FALSE, shown |-> 0]

\* no handleVerify invocation has started
HandlersIdle ==
    /\ handler = [h \in Handlers |-> IdleHandler]
    /\ invoked = 0
    /\ succeeded = FALSE

\* no generateTOTP / verifyTOTP call is under way
TotpIdle ==
    /\ clock = 0
    /\ config = [f \in {} |-> 0]
    /\ genWin = NoWindow
    /\ verWin = NoWindow
    /\ pc = "off"
    /\ gen = NoResult
    /\ ver = NoVerdict
    /\ ticks = 0
    /\ again = NoResult

\* no function is being applied on its own
PureIdle ==
    /\ arg = <<>>
    /\ res = <<>>

\* new RateLimiter(maxAttempts, windowMs): positive integers, empty map
Init ==
    /\ attempts = EmptyMap
    /\ maxAttempts \in 1..MaxAttemptsBound
    /\ windowMs \in 1..MaxWindowMs
    /\ now = 0
    /\ ret = NoCall
    /\ admitted = 0
    /\ limitedCalls = 0
    /\ admittedBy = {}
    /\ origin = "none"
    /\ priorLimited = 0
    /\ admitTimes = <<>>
    /\ TotpIdle
    /\ PureIdle
    /\ HandlersIdle

\* which branch of isRateLimited starts a new window
WindowStartedBy(map, key, t) ==
    IF key \notin DOMAIN map THEN "create"
    ELSE IF t - map[key].timestamp > windowMs THEN "expiry"
    ELSE "same"

\* the history of the observed key after an isRateLimited call
Observe(c, started, limited) ==
    /\ admitted' = (IF started = "same" THEN admitted ELSE 0)
                       + (IF limited THEN 0 ELSE 1)
    /\ limitedCalls' = (IF started = "same" THEN limitedCalls ELSE 0)
                           + (IF limited THEN 1 ELSE 0)
    /\ admittedBy' = (IF started = "same" THEN admittedBy ELSE {})
                         \cup (IF limited THEN {} ELSE {c})
    /\ origin' = (IF started = "same" THEN origin ELSE started)
    /\ priorLimited' = (IF started = "same" THEN priorLimited ELSE limitedCalls)
    /\ admitTimes' = (IF limited THEN admitTimes ELSE Append(admitTimes, now))

\* caller c runs limiter.isRateLimited(key)
IsRateLimitedCall(c, key) ==
    LET r == isRateLimited(attempts, key, now)
        started == WindowStartedBy(attempts, key, now)
    IN /\ (r.limited /\ key = Observed) => limitedCalls < MaxLimited
       /\ attempts' = r.attempts
       /\ ret' = [op |-> "isRateLimited", key |-> key,
                  limited |-> r.limited, num |-> 0]
       /\ IF key = Observed
          THEN Observe(c, started, r.limited)
          ELSE UNCHANGED <<admitted, limitedCalls, admittedBy, origin,
                           priorLimited, admitTimes>>
       /\ UNCHANGED <<maxAttempts, windowMs, now>>
       /\ UNCHANGED <<totpVars, pureVars, protoVars>>

\* limiter.reset(key)
ResetCall(key) ==
    /\ attempts' = reset(attempts, key, now)
    /\ ret' = [op |-> "reset", key |-> key, limited |-> FALSE, num |-> 0]
    /\ IF key = Observed
       THEN /\ admitted' = 0
            /\ limitedCalls' = 0
            /\ admittedBy' = {}
            /\ origin' = "reset"
            /\ priorLimited' = limitedCalls
            /\ admitTimes' = <<>>
       ELSE UNCHANGED <<admitted, limitedCalls, admittedBy, origin,
                        priorLimited, admitTimes>>
    /\ UNCHANGED <<maxAttempts, windowMs, now>>
    /\ UNCHANGED <<totpVars, pureVars, protoVars>>

\* limiter.getRemainingAttempts(key)
GetRemainingAttemptsCall(key) ==
    /\ ret' = [op |-> "getRemainingAttempts", key |-> key,
               limited |-> FALSE,
               num |-> getRemainingAttempts(attempts, key, now)]
    /\ UNCHANGED <<attempts, maxAttempts, windowMs, now, admitted,
                   limitedCalls, admittedBy, origin, priorLimited,
                   admitTimes>>
    /\ UNCHANGED <<totpVars, pureVars, protoVars>>

\* an entry whose window has elapsed is removed by the query
GetTimeUntilResetCall_expiring(key) ==
    /\ ret' = [op |-> "getTimeUntilReset", key |-> key,
               limited |-> FALSE,
               num |-> getTimeUntilReset(attempts, key, now)]
    /\ attempts' = IF key \in DOMAIN attempts
                      /\ now - attempts[key].timestamp > windowMs
                   THEN [k \in DOMAIN attempts \ {key} |-> attempts[k]]
                   ELSE attempts
    /\ UNCHANGED <<maxAttempts, windowMs, now, admitted,
                   limitedCalls, admittedBy, origin, priorLimited,
                   admitTimes>>
    /\ UNCHANGED <<totpVars, pureVars, protoVars>>

\* limiter.getTimeUntilReset(key)
GetTimeUntilResetCall(key) ==
    /\ ret' = [op |-> "getTimeUntilReset", key |-> key,
               limited |-> FALSE,
               num |-> getTimeUntilReset(attempts, key, now)]
    /\ UNCHANGED <<attempts, maxAttempts, windowMs, now, admitted,
                   limitedCalls, admittedBy, origin, priorLimited,
                   admitTimes>>
    /\ UNCHANGED <<totpVars, pureVars, protoVars>>

\* one millisecond passes; admissions older than a window are forgotten
Tick ==
    /\ now < MaxTime
    /\ now' = now + 1
    /\ ret' = NoCall
    /\ LET Recent(t) == t >= now + 1 - windowMs
       IN admitTimes' = SelectSeq(admitTimes, Recent)
    /\ UNCHANGED <<attempts, maxAttempts, windowMs, admitted, limitedCalls,
                   admittedBy, origin, priorLimited>>
    /\ UNCHANGED <<totpVars, pureVars, protoVars>>

Next ==
    \/ \E c \in Callers, key \in Keys : IsRateLimitedCall(c, key)
    \/ \E key \in Keys : ResetCall(key)
    \/ \E key \in Keys : GetRemainingAttemptsCall(key)
    \/ \E key \in Keys : GetTimeUntilResetCall(key)
    \/ Tick

Spec == Init /\ [][Next]_vars

TypeOK ==
    /\ DOMAIN attempts \subseteq Keys
    /\ now \in 0..MaxTime

\* ---------------------------------------------------------------------
\* Properties of the RateLimiter
\* ---------------------------------------------------------------------
\* the observed key has an entry whose window has not elapsed
Unexpired ==
    /\ Observed \in DOMAIN attempts
    /\ now - attempts[Observed].timestamp <= windowMs

\* the call just made was isRateLimited on the observed key
ObservedCall == ret.op = "isRateLimited" /\ ret.key = Observed

\* C1: for a key that had no entry, the first maxAttempts isRateLimited
\* calls of one window return false and the next one returns true.
C1_FirstCallsAdmitted ==
    (ObservedCall /\ origin = "create") =>
        LET i == admitted + limitedCalls IN
        /\ i <= maxAttempts => ~ret.limited
        /\ i = maxAttempts + 1 => ret.limited

C1_Witness ==
    /\ ObservedCall /\ origin = "create"
    /\ maxAttempts >= 2
    /\ admitted = maxAttempts /\ limitedCalls = 1
    /\ ret.limited

\* C2: whatever the interleaving of the callers, no more than maxAttempts
\* isRateLimited calls on one key return false inside one window without
\* a reset.
C2_NoExtraAdmission == admitted <= maxAttempts

C2_Witness ==
    /\ Cardinality(admittedBy) = 2
    /\ admitted = maxAttempts
    /\ limitedCalls >= 1
    /\ Unexpired

\* C3: in any interval of length windowMs without a reset, at most
\* maxAttempts isRateLimited calls for one key return false.
C3_AnyIntervalBound ==
    \A a \in 0..MaxTime :
        Cardinality({i \in DOMAIN admitTimes :
                        a <= admitTimes[i] /\ admitTimes[i] <= a + windowMs})
            <= maxAttempts

\* C4: no entry's count exceeds maxAttempts, and a call that returns true
\* leaves the entry's count and window start as they were.
C4_CountBounded ==
    [][ /\ \A k \in DOMAIN attempts' : attempts'[k].count <= maxAttempts
        /\ (ret'.op = "isRateLimited" /\ ret'.limited) =>
               MapGet(attempts', ret'.key) = MapGet(attempts, ret'.key) ]_vars

C4_Witness ==
    /\ ObservedCall /\ ret.limited
    /\ limitedCalls = 2
    /\ attempts[Observed].count = maxAttempts

\* C5: an isRateLimited call made more than windowMs after the window
\* start of an existing entry returns false and leaves count 1 and window
\* start now.
C5_ExpiryRestarts ==
    [][ \A k \in Keys :
          ( /\ ret'.op = "isRateLimited" /\ ret'.key = k
            /\ k \in DOMAIN attempts
            /\ now - attempts[k].timestamp > windowMs )
          => /\ ~ret'.limited
             /\ attempts'[k] = [count |-> 1, timestamp |-> now] ]_vars

C5_Witness ==
    /\ ObservedCall /\ origin = "expiry"
    /\ admitted = 1 /\ limitedCalls = 0
    /\ priorLimited >= 2

\* C6: reset(key) leaves count 0 and window start now, creating the entry
\* if needed; in the window it starts exactly maxAttempts calls are
\* admitted, the first of them even if the key was limited, and after that
\* first call getRemainingAttempts is maxAttempts - 1.
C6_ResetReopens ==
    /\ ret.op = "reset" =>
          /\ ret.key \in DOMAIN attempts
          /\ attempts[ret.key] = [count |-> 0, timestamp |-> now]
    /\ (ObservedCall /\ origin = "reset") =>
          (ret.limited <=> admitted + limitedCalls > maxAttempts)
    /\ ( /\ ret.op = "getRemainingAttempts" /\ ret.key = Observed
         /\ origin = "reset" /\ admitted + limitedCalls = 1 /\ Unexpired )
          => ret.num = maxAttempts - 1

C6_Witness ==
    /\ ObservedCall /\ origin = "reset"
    /\ priorLimited >= 1
    /\ admitted = maxAttempts /\ limitedCalls = 1
    /\ ret.limited

\* C7: getRemainingAttempts is maxAttempts without an entry or after the
\* window, otherwise max(0, maxAttempts - count); after j admitted calls
\* of one window it is maxAttempts - j; it lies in 0..maxAttempts.
C7_RemainingAttempts ==
    ret.op = "getRemainingAttempts" =>
        LET k == ret.key IN
        /\ ret.num \in 0..maxAttempts
        /\ IF k \notin DOMAIN attempts
           THEN ret.num = maxAttempts
           ELSE IF now - attempts[k].timestamp > windowMs
           THEN ret.num = maxAttempts
           ELSE LET left == maxAttempts - attempts[k].count IN
                ret.num = (IF left > 0 THEN left ELSE 0)
        /\ (k = Observed /\ Unexpired) => ret.num = maxAttempts - admitted

C7_Witness ==
    /\ ret.op = "getRemainingAttempts" /\ ret.key = Observed
    /\ Unexpired
    /\ maxAttempts >= 2 /\ admitted = 1
    /\ ret.num = maxAttempts - 1

\* C8: getTimeUntilReset is 0 without an entry or after the window,
\* otherwise windowMs - (now - windowStart); it lies in 0..windowMs and is
\* strictly positive right after an attempt was recorded.
C8_TimeUntilReset ==
    [][ ret'.op = "getTimeUntilReset" =>
          LET k == ret'.key IN
          /\ ret'.num \in 0..windowMs
          /\ IF k \notin DOMAIN attempts'
             THEN ret'.num = 0
             ELSE IF now' - attempts'[k].timestamp > windowMs
             THEN ret'.num = 0
             ELSE ret'.num = windowMs - (now' - attempts'[k].timestamp)
          /\ (ret.op = "isRateLimited" /\ ~ret.limited /\ ret.key = k)
                => ret'.num > 0 ]_vars

\* C9: isRateLimited(k) and reset(k) leave the entry of every other key
\* as it was.
C9_OtherKeysUntouched ==
    [][ \A k \in Keys :
          (ret'.op \in {"isRateLimited", "reset"} /\ ret'.key # k)
          => MapGet(attempts', k) = MapGet(attempts, k) ]_vars

C9_Witness ==
    /\ ret.op \in {"isRateLimited", "reset"} /\ ret.key # Observed
    /\ Unexpired
    /\ attempts[Observed].count = maxAttempts
    /\ limitedCalls >= 1

\* ---------------------------------------------------------------------
\* A caller that generates a token and then verifies it
\* ---------------------------------------------------------------------
MaxWindow == 1
MaxClockSteps == 2

AlphaCharSet ==
    <<"A","B","C","D","E","F","G","H","I","J","K","L","M","N","O","P",
      "Q","R","S","T","U","V","W","X","Y","Z">>

Secrets ==
    { <<"j", "b", "-", "s", "w", "y", "3", "d", "q", "=">>,
      <<"-", "=", "1">> }

FullConfigs ==
    [secret : Secrets,
     algorithm : {"SHA-256"},
     digits : {4, 8},
     period : {15, 60},
     charSet : {AlphaCharSet, DecimalCharSet}]

OptionalFields == {"secret", "algorithm", "digits", "period", "charSet"}

Restrict(f, fields) == [x \in fields |-> f[x]]

\* { ...options, f: v }
With(options, f, v) ==
    [x \in (DOMAIN options) \cup {f} |-> IF x = f THEN v ELSE options[x]]

WithWindow(options, w) ==
    IF w.given THEN With(options, "window", w.val) ELSE options

GenWindows ==
    {NoWindow} \cup {[given |-> TRUE, val |-> k] :
                        k \in (0 - MaxWindow - 1)..(MaxWindow + 1)}

VerWindows ==
    {NoWindow} \cup {[given |-> TRUE, val |-> w] : w \in 0..MaxWindow}

ClockStarts == {179999, 180000}

ClockSteps == {1, 14999}

RandomDraws ==
    { [i \in 1..20 |-> (i * 37 + 11) % 256],
      [i \in 1..20 |-> (255 - i * 9) % 256] }

\* tokens a user types without having generated them
TypedTokens ==
    { <<"0", "0", "0", "0">>,
      <<"A", "A", "A", "A", "A", "A">> }

\* the limiter is not used by this caller
LimiterIdle ==
    /\ HandlersIdle
    /\ attempts = EmptyMap
    /\ maxAttempts = 5
    /\ windowMs = 60000
    /\ now = 0
    /\ ret = NoCall
    /\ admitted = 0
    /\ limitedCalls = 0
    /\ admittedBy = {}
    /\ origin = "none"
    /\ priorLimited = 0
    /\ admitTimes = <<>>

InitTOTP ==
    /\ LimiterIdle
    /\ PureIdle
    /\ clock \in ClockStarts
    /\ \E full \in FullConfigs, fields \in SUBSET OptionalFields :
          config = Restrict(full, fields)
    /\ genWin \in GenWindows
    /\ verWin \in VerWindows
    /\ pc = "start"
    /\ gen = NoResult
    /\ ver = NoVerdict
    /\ ticks = 0
    /\ again = NoResult

\* the byte sequences crypto.getRandomValues may deliver to
\* generateTOTP(options): it is called only when no secret is supplied
Draws(options) ==
    IF Has(options, "secret") /\ options["secret"] # <<>>
    THEN {<<>>}
    ELSE RandomDraws

\* generateTOTP(options) at the clock reading t, as a TOTPResult with the
\* clock it read, the random bytes it drew and the exception it ended with
GenerateOutcome(options, t, randomBytes) ==
    LET err == generateTOTPError(options, randomBytes)
    IN IF err # "none"
       THEN [NoResult EXCEPT !.time = t, !.threw = err]
       ELSE generateTOTP(options, t, randomBytes)
                @@ [time |-> t, random |-> randomBytes, threw |-> "none"]

\* await generateTOTP({ ...config, window: genWin })
GenerateTOTPCall ==
    /\ pc = "start"
    /\ \E randomBytes \in Draws(config) :
          gen' = GenerateOutcome(WithWindow(config, genWin), clock,
                                 randomBytes)
    /\ pc' = IF gen'.threw = "none" THEN "generated" ELSE "failed"
    /\ UNCHANGED <<clock, config, genWin, verWin, ver, ticks, again>>
    /\ UNCHANGED <<rlVars, pureVars, protoVars>>

\* time passes between the two calls
ClockTick ==
    /\ pc = "generated"
    /\ ticks < MaxClockSteps
    /\ \E d \in ClockSteps : clock' = clock + d
    /\ ticks' = ticks + 1
    /\ UNCHANGED <<config, genWin, verWin, pc, gen, ver, again>>
    /\ UNCHANGED <<rlVars, pureVars, protoVars>>

\* await verifyTOTP(token, { ...config, window: verWin }): of a typed
\* token before any token was generated, or of the generated token with
\* the secret generateTOTP returned
VerifyTOTPCall(token) ==
    /\ \/ pc = "start" /\ token \in TypedTokens
       \/ pc = "generated" /\ token = gen.token
    /\ LET options == WithWindow(IF pc = "generated"
                                 THEN With(config, "secret", gen.secret)
                                 ELSE config,
                                 verWin)
           err == verifyTOTPError(token, options)
       IN ver' = [result |-> IF err = "none"
                             THEN verifyTOTP(token, options, clock)
                             ELSE FALSE,
                  time |-> clock,
                  token |-> token,
                  threw |-> err]
    /\ pc' = IF pc = "start" THEN "answered" ELSE "verified"
    /\ UNCHANGED <<clock, config, genWin, verWin, gen, ticks, again>>
    /\ UNCHANGED <<rlVars, pureVars, protoVars>>

\* await generateTOTP({ ...config, secret: gen.secret, window: genWin })
\* once more, after the first call and possibly a verification
RegenerateTOTPCall ==
    /\ pc \in {"generated", "verified"}
    /\ LET options == WithWindow(With(config, "secret", gen.secret), genWin)
       IN \E randomBytes \in Draws(options) :
             again' = GenerateOutcome(options, clock, randomBytes)
    /\ pc' = "regenerated"
    /\ UNCHANGED <<clock, config, genWin, verWin, gen, ver, ticks>>
    /\ UNCHANGED <<rlVars, pureVars, protoVars>>

NextTOTP ==
    \/ GenerateTOTPCall
    \/ ClockTick
    \/ \E token \in TypedTokens \cup {gen.token} : VerifyTOTPCall(token)
    \/ RegenerateTOTPCall

SpecTOTP == InitTOTP /\ [][NextTOTP]_vars

\* ---------------------------------------------------------------------
\* Properties of generateTOTP and verifyTOTP
\* ---------------------------------------------------------------------
\* the period, in milliseconds, both calls work with
PeriodMs == 1000 * (IF "period" \in DOMAIN config THEN config["period"] ELSE 30)

\* both calls read the clock in the same period
SamePeriod == gen.time \div PeriodMs = ver.time \div PeriodMs

\* the window offset the token was generated at
GenOffset == IF genWin.given THEN genWin.val ELSE 0

\* the window verifyTOTP applies
VerWindow == IF verWin.given THEN verWin.val ELSE 1

Abs(n) == IF n < 0 THEN 0 - n ELSE n

\* C10: a token generated at window offset k is accepted by verifyTOTP
\* with the same secret and configuration and any window W >= |k|, when
\* both calls read the clock within the same period.
C10_WindowInclusion ==
    (pc = "verified" /\ SamePeriod /\ Abs(GenOffset) <= VerWindow)
        => ver.result

C10_Witness ==
    /\ pc = "verified" /\ SamePeriod
    /\ verWin.given /\ VerWindow >= 1 /\ GenOffset = 0 - VerWindow
    /\ gen.time # ver.time
    /\ "charSet" \in DOMAIN config /\ config["charSet"] = AlphaCharSet
    /\ ver.result

\* the configuration both calls work with: the supplied field or its default
Algorithm == IF "algorithm" \in DOMAIN config THEN config["algorithm"] ELSE "SHA-1"

Digits == IF "digits" \in DOMAIN config THEN config["digits"] ELSE 6

CharSet == IF "charSet" \in DOMAIN config THEN config["charSet"] ELSE DecimalCharSet

\* the code of counter c under the secret and the configuration of the calls
CodeAt(secret, c) == generateHOTP(secret, c, Algorithm, Digits, CharSet)

\* the counter of the period verifyTOTP read the clock in
VerBase == ver.time \div PeriodMs

\* the codes of the counters VerBase - W .. VerBase + W + 1 differ from the
\* code of VerBase + W + 1
NextCodeDiffers ==
    \A e \in (0 - VerWindow)..VerWindow :
       CodeAt(gen.secret, VerBase + e)
           # CodeAt(gen.secret, VerBase + VerWindow + 1)

\* C11: verifyTOTP with window W accepts a token exactly when it is the
\* code of one of the 2W+1 counters base-W .. base+W, an explicit window
\* of 0 included; so a token generated in the same period at window offset
\* W+1 is rejected whenever the code of counter base+W+1 differs from the
\* codes of those counters.
C11_WindowExclusion ==
    pc = "verified" =>
       /\ ver.result <=>
             \E e \in (0 - VerWindow)..VerWindow :
                CodeAt(gen.secret, VerBase + e) = ver.token
       /\ (SamePeriod /\ GenOffset = VerWindow + 1 /\ NextCodeDiffers)
              => ~ver.result

C11_Witness ==
    /\ pc = "verified" /\ SamePeriod
    /\ verWin.given /\ verWin.val = 0
    /\ GenOffset = 1
    /\ NextCodeDiffers
    /\ gen.time # ver.time
    /\ ~ver.result

\* the token is not a string of Digits characters of CharSet
Malformed(token) ==
    \/ Len(token) # Digits
    \/ \E i \in 1..Len(token) : IndexOf(CharSet, token[i]) < 0

\* the secret verifyTOTP was given decodes to at least one byte
SecretUsable ==
    "secret" \in DOMAIN config /\ generateHOTPError(config["secret"]) = "none"

\* C12: verifyTOTP rejects with an InvalidToken error, rather than
\* returning false, every token whose length differs from digits or
\* that has a character outside the configured alphabet.
C12_MalformedTokenThrows ==
    (pc = "answered" /\ SecretUsable /\ Malformed(ver.token))
        => ver.threw = "InvalidToken"

\* the typed token is the code of none of the counters verifyTOTP tries
MatchesNoCandidate ==
    \A e \in (0 - VerWindow)..VerWindow :
       CodeAt(config["secret"], VerBase + e) # ver.token

\* C13: for a token of the right length and alphabet that equals none of
\* the candidate codes of the window, verifyTOTP returns false and does not
\* throw; it throws only when the secret is missing or decodes to no key.
C13_WrongCodeReturnsFalse ==
    pc = "answered" =>
       /\ (SecretUsable /\ ~Malformed(ver.token) /\ MatchesNoCandidate)
             => (ver.threw = "none" /\ ~ver.result)
       /\ ver.threw # "none" => ~SecretUsable

C13_Witness ==
    /\ pc = "answered"
    /\ SecretUsable /\ ~Malformed(ver.token) /\ MatchesNoCandidate
    /\ VerWindow >= 1
    /\ ver.threw = "none" /\ ~ver.result

\* the period, in seconds, the calls work with
PeriodSeconds == IF "period" \in DOMAIN config THEN config["period"] ELSE 30

\* the result r of generateTOTP is the code of the counter of the clock
\* reading r.time, shifted by the window offset, with the seconds that
\* remain of that reading's period
OfOneReading(r) ==
    LET nowSeconds == r.time \div 1000
    IN /\ r.token = CodeAt(r.secret, nowSeconds \div PeriodSeconds + GenOffset)
       /\ r.remainingSeconds = PeriodSeconds - (nowSeconds % PeriodSeconds)
       /\ 1 <= r.remainingSeconds
       /\ r.remainingSeconds <= PeriodSeconds

\* C14: generateTOTP returns the code of counter floor(nowSeconds / period)
\* + window and remainingSeconds = period - (nowSeconds mod period), both
\* of one clock reading, so that 1 <= remainingSeconds <= period.
C14_OneClockReading ==
    /\ pc \in {"generated", "verified", "regenerated"} => OfOneReading(gen)
    /\ pc = "regenerated" => OfOneReading(again)

C14_Witness ==
    /\ pc = "regenerated"
    /\ GenOffset = 1
    /\ gen.remainingSeconds = 1
    /\ again.remainingSeconds = PeriodSeconds
    /\ "period" \in DOMAIN config

\* both generateTOTP calls read the clock in the same period
SamePeriodAgain == gen.time \div PeriodMs = again.time \div PeriodMs

\* C15: two generateTOTP calls with the same secret, configuration and
\* window offset at two instants of one period return the same token,
\* whether or not a verifyTOTP call ran between them.
C15_SameTokenWithinPeriod ==
    (pc = "regenerated" /\ SamePeriodAgain)
        => (again.token = gen.token /\ again.secret = gen.secret)

C15_Witness ==
    /\ pc = "regenerated" /\ SamePeriodAgain
    /\ gen.time # again.time
    /\ ver.time # 0 /\ ver.result
    /\ gen.random # <<>>
    /\ again.token = gen.token

\* C16: when generateTOTP is called without a secret, decoding the
\* returned secret with toUint8Array yields exactly the 20 random bytes
\* drawn, and the returned secret is the one the token was computed with.
C16_SecretEncodesDraw ==
    (pc = "generated" /\ gen.random # <<>>)
        => /\ toUint8Array(gen.secret) = gen.random
           /\ gen.token = CodeAt(gen.secret,
                                 gen.time \div PeriodMs + GenOffset)

\* ---------------------------------------------------------------------
\* The functions of the engine applied on their own
\* ---------------------------------------------------------------------
\* neither the limiter nor generateTOTP / verifyTOTP is in use
EngineIdle ==
    /\ LimiterIdle
    /\ clock = 0
    /\ config = [f \in {} |-> 0]
    /\ genWin = NoWindow
    /\ verWin = NoWindow
    /\ gen = NoResult
    /\ ver = NoVerdict
    /\ ticks = 0
    /\ again = NoResult

\* ---- intToBytes ----
MaxHighLimb == 1

\* counters up to 2^53, the integers a JavaScript number holds exactly
Counters ==
    {<<l3, l2, l1, l0>> : l3 \in 0..MaxHighLimb, l2 \in 0..MaxHighLimb,
                          l1 \in {0, 1, 65535}, l0 \in {0, 256, 65535}}

InitCounter ==
    /\ EngineIdle
    /\ pc = "input"
    /\ arg \in Counters \X Counters
    /\ res = <<>>

\* intToBytes(counter) for two counters
IntToBytesCall ==
    /\ pc = "input"
    /\ res' = <<intToBytesOfLimbs(arg[1]), intToBytesOfLimbs(arg[2])>>
    /\ pc' = "output"
    /\ UNCHANGED <<clock, config, genWin, verWin, gen, ver, ticks, again>>
    /\ UNCHANGED <<rlVars, arg, protoVars>>

NextCounter == IntToBytesCall

SpecCounter == InitCounter /\ [][NextCounter]_vars

\* the 8-byte big-endian representation of a counter given by its limbs
BigEndian8(l) ==
    <<l[1] \div 256, l[1] % 256, l[2] \div 256, l[2] % 256,
      l[3] \div 256, l[3] % 256, l[4] \div 256, l[4] % 256>>

\* C17: intToBytes returns the 8-byte big-endian representation of every
\* counter of the unsigned 64-bit range, so that two distinct counters
\* never give the same HMAC message.
C17_BigEndianCounter ==
    pc = "output" =>
       /\ \A k \in 1..2 : res[k] = BigEndian8(arg[k])
       /\ arg[1] # arg[2] => res[1] # res[2]

\* ---- generateHOTP from the hash on ----
MaxDigits == 8

\* hashes of the length of a SHA-1, SHA-256 and SHA-512 digest: the last
\* byte is chosen freely, the other bytes follow a pattern
Hashes ==
    {[i \in 1..n |-> IF i = n THEN last ELSE (a * i + b) % 256] :
        n \in {20, 32, 64},
        last \in {16 * h + o : h \in {0, 15}, o \in 0..15},
        a \in {0, 37},
        b \in {0, 128, 255}}

CharSets == {DecimalCharSet, AlphaCharSet, <<"x", "y", "z">>, <<"X">>}

InitTruncate ==
    /\ EngineIdle
    /\ pc = "input"
    /\ arg \in [hash : Hashes, digits : 1..MaxDigits, charSet : CharSets]
    /\ res = <<>>

\* the part of generateHOTP that follows crypto.subtle.sign
TokenFromHashCall ==
    /\ pc = "input"
    /\ res' = TokenFromHash(arg.hash, arg.digits, arg.charSet)
    /\ pc' = "output"
    /\ UNCHANGED <<clock, config, genWin, verWin, gen, ver, ticks, again>>
    /\ UNCHANGED <<rlVars, arg, protoVars>>

NextTruncate == TokenFromHashCall

SpecTruncate == InitTruncate /\ [][NextTruncate]_vars

\* the number a string of decimal digits denotes, -1 for any other string
RECURSIVE DecimalValue(_)
DecimalValue(str) ==
    IF str = <<>> THEN 0
    ELSE LET d == IndexOf(DecimalCharSet, str[Len(str)])
             v == DecimalValue(SubSeq(str, 1, Len(str) - 1))
         IN IF d < 0 \/ v < 0 THEN -1 ELSE 10 * v + d

\* the 31-bit integer of the four bytes at the offset the low nibble of
\* the last byte of the hash names, the top bit of the first one cleared
Truncated31(hash) ==
    LET offset == hash[Len(hash)] % 16
        first == hash[offset + 1]
    IN (IF first >= 128 THEN first - 128 ELSE first) * 16777216
           + hash[offset + 2] * 65536 + hash[offset + 3] * 256
           + hash[offset + 4]

\* C18: with the decimal alphabet the token is the 31-bit integer of the
\* four bytes at offset (last byte & 0x0f), taken modulo 10^digits and
\* left-padded with '0'; for hashes of 20, 32 and 64 bytes the four bytes
\* lie inside the hash, and for digits in 4..8 the token has exactly
\* digits characters, each a decimal digit.
C18_DecimalTruncation ==
    (pc = "output" /\ arg.charSet = DecimalCharSet /\ arg.digits \in 4..8)
        => /\ (arg.hash[Len(arg.hash)] % 16) + 3 <= Len(arg.hash) - 1
           /\ Len(res) = arg.digits
           /\ \A i \in 1..Len(res) : IndexOf(DecimalCharSet, res[i]) >= 0
           /\ DecimalValue(res) = Truncated31(arg.hash) % (10 ^ arg.digits)

C18_Witness ==
    /\ pc = "output" /\ arg.charSet = DecimalCharSet /\ arg.digits = 8
    /\ Len(arg.hash) = 20
    /\ arg.hash[20] % 16 = 15 /\ arg.hash[20] >= 16
    /\ arg.hash[16] >= 128
    /\ Len(res) = 8 /\ res[1] = "0" /\ DecimalValue(res) > 0

\* the remainder modulo L of the unsigned 32-bit big-endian integer of the
\* hash bytes at the indices (4i + j) mod Len(hash), j = 0..3, computed
\* from its two 16-bit halves
SymbolIndex(hash, i, L) ==
    LET n == Len(hash)
        Byte(j) == hash[((4 * i + j) % n) + 1]
        high == Byte(0) * 256 + Byte(1)
        low == Byte(2) * 256 + Byte(3)
    IN ((((high % L) * (65536 % L)) % L) + (low % L)) % L

\* C19: with a custom alphabet of length L >= 1 the token has exactly
\* digits symbols, symbol i being charSet[v_i mod L] for the unsigned
\* 32-bit big-endian integer v_i of the hash bytes at (4i + j) mod
\* hashLength; every index lies inside the hash and every symbol belongs
\* to the alphabet.
C19_CustomAlphabet ==
    (pc = "output" /\ arg.charSet # DecimalCharSet)
        => /\ Len(res) = arg.digits
           /\ \A i \in 0..(arg.digits - 1) :
                 /\ \A j \in 0..3 :
                       (4 * i + j) % Len(arg.hash) \in 0..(Len(arg.hash) - 1)
                 /\ res[i + 1]
                       = arg.charSet[SymbolIndex(arg.hash, i,
                                                 Len(arg.charSet)) + 1]
                 /\ \E k \in 1..Len(arg.charSet) : res[i + 1] = arg.charSet[k]

C19_Witness ==
    /\ pc = "output" /\ arg.charSet = AlphaCharSet /\ arg.digits = 8
    /\ Len(arg.hash) = 20
    /\ arg.hash[1] >= 128 /\ arg.hash[20] >= 128
    /\ Len(res) = 8
    /\ res[6] = res[1] /\ res[2] # res[1]

\* ---- toUint8Array ----
MaxSecretLen == 7

SecretSymbols == {"A", "7", "k", "="}

InitDecode ==
    /\ EngineIdle
    /\ pc = "input"
    /\ arg \in UNION {[1..n -> SecretSymbols] : n \in 0..MaxSecretLen}
    /\ res = <<>>

\* toUint8Array(secret)
ToUint8ArrayCall ==
    /\ pc = "input"
    /\ res' = toUint8Array(arg)
    /\ pc' = "output"
    /\ UNCHANGED <<clock, config, genWin, verWin, gen, ver, ticks, again>>
    /\ UNCHANGED <<rlVars, arg, protoVars>>

NextDecode == ToUint8ArrayCall

SpecDecode == InitDecode /\ [][NextDecode]_vars

\* the 5-bit value of a Base32 symbol, lower case as upper case; -1 for a
\* character outside [A-Za-z2-7]
SymbolValue(c) ==
    IF IndexOf(AlphaCharSet, c) >= 0 THEN IndexOf(AlphaCharSet, c)
    ELSE IF IndexOf(LowerCase, c) >= 0 THEN IndexOf(LowerCase, c)
    ELSE IF IndexOf(<<"2", "3", "4", "5", "6", "7">>, c) >= 0
         THEN 26 + IndexOf(<<"2", "3", "4", "5", "6", "7">>, c)
    ELSE -1

\* the values of the symbols of str, the other characters left out
SymbolValues(str) ==
    LET IsSymbol(v) == v >= 0
    IN SelectSeq([i \in 1..Len(str) |-> SymbolValue(str[i])], IsSymbol)

\* bit k (from 1) of the 5-bit groups of values laid end to end, most
\* significant bit first
BitAt(values, k) ==
    (values[((k - 1) \div 5) + 1] \div (2 ^ (4 - ((k - 1) % 5)))) % 2

\* Base32 bit-packing: byte m is made of bits 8(m-1)+1 .. 8m, and the
\* bits after the last whole byte are dropped
ReferenceDecode(str) ==
    LET values == SymbolValues(str)
        ByteAt(m) ==
            BitAt(values, 8 * m - 7) * 128 + BitAt(values, 8 * m - 6) * 64
            + BitAt(values, 8 * m - 5) * 32 + BitAt(values, 8 * m - 4) * 16
            + BitAt(values, 8 * m - 3) * 8 + BitAt(values, 8 * m - 2) * 4
            + BitAt(values, 8 * m - 1) * 2 + BitAt(values, 8 * m)
    IN [m \in 1..((5 * Len(values)) \div 8) |-> ByteAt(m)]

\* C20: toUint8Array equals the reference Base32 bit-packing of the
\* cleaned secret: characters outside [A-Za-z2-7] are left out, lower
\* case counts as upper case, the n symbols give floor(5n/8) bytes and the
\* residual bits are dropped, also for secrets so long that the 32-bit
\* accumulator wraps.
C20_Base32Decoding ==
    pc = "output" =>
       /\ res = ReferenceDecode(arg)
       /\ Len(res) = (5 * Len(SymbolValues(arg))) \div 8

C20_Witness ==
    /\ pc = "output"
    /\ Len(arg) = 7 /\ Len(SymbolValues(arg)) = 7
    /\ arg[1] = "7" /\ arg[2] = "7" /\ arg[3] = "k" /\ arg[7] = "7"
    /\ Len(res) = 4 /\ res[1] = 255 /\ res[4] >= 1

\* ---------------------------------------------------------------------
\* Secrets without any Base32 character
\* ---------------------------------------------------------------------
\* the call that ended was given a secret with no Base32 character
EmptyCleanedSecret ==
    /\ "secret" \in DOMAIN config
    /\ config["secret"] # <<>>
    /\ Cleaned(config["secret"]) = <<>>

\* C21: generateTOTP and verifyTOTP of a secret whose cleaned form is
\* empty fail with an InvalidSecretFormat error.
C21_EmptySecretRejected ==
    /\ (pc = "failed" /\ EmptyCleanedSecret)
          => gen.threw = "InvalidSecretFormat"
    /\ (pc = "answered" /\ EmptyCleanedSecret /\ VerWindow >= 0)
          => ver.threw = "InvalidSecretFormat"

\* ---------------------------------------------------------------------
\* The second implementation, src/totp.ts: Base32 conversions
\* ---------------------------------------------------------------------
\* Number.prototype.toString(2)
RECURSIVE ToBinaryString(_)
ToBinaryString(n) ==
    IF n < 2 THEN <<DecimalCharSet[n + 1]>>
    ELSE ToBinaryString(n \div 2) \o <<DecimalCharSet[(n % 2) + 1]>>

\* parseInt(str, 2) of a non-empty string of binary digits
RECURSIVE ParseBinary(_)
ParseBinary(str) ==
    IF Len(str) = 0 THEN 0
    ELSE 2 * ParseBinary(SubSeq(str, 1, Len(str) - 1))
            + IndexOf(DecimalCharSet, str[Len(str)])

\* String.prototype.slice(from, to) with 0 <= from <= to
Slice(str, from, to) ==
    SubSeq(str, from + 1, IF to < Len(str) THEN to ELSE Len(str))

\* the concatenation of the strings of a sequence
RECURSIVE Concat(_)
Concat(strs) ==
    IF Len(strs) = 0 THEN <<>>
    ELSE Concat(SubSeq(strs, 1, Len(strs) - 1)) \o strs[Len(strs)]

\* the exception base32ToBytes(base32) ends with, "none" when it returns
base32ToBytesError(base32) ==
    IF \E i \in 1..Len(base32) : Base32IndexOf[UpperCaseOf[base32[i]]] < 0
    THEN "INVALID_SECRET"
    ELSE "none"

\* base32ToBytes(base32) of a string of Base32 characters
base32ToBytes(base32) ==
    LET bits == Concat([i \in 1..Len(base32) |->
                   PadStart(ToBinaryString(
                                Base32IndexOf[UpperCaseOf[base32[i]]]),
                            5, "0")])
        \* Math.ceil(bits.length / 8)
        size == (Len(bits) + 7) \div 8
    IN [k \in 1..size |->
           ParseBinary(Slice(bits, 8 * (k - 1), 8 * (k - 1) + 8))]

\* the bytes are not padded to eight binary digits
bytesToBase32_unpadded(bytes) ==
    LET bits == Concat([i \in 1..Len(bytes) |-> ToBinaryString(bytes[i])])
        chunks == (Len(bits) + 4) \div 5
        Chunk(k) == Slice(bits, 5 * (k - 1), 5 * (k - 1) + 5)
    IN Concat([k \in 1..chunks |->
                  IF Len(Chunk(k)) = 5
                  THEN <<base32Chars[ParseBinary(Chunk(k)) + 1]>>
                  ELSE <<>>])

\* bytesToBase32(bytes)
bytesToBase32(bytes) ==
    LET bits == Concat([i \in 1..Len(bytes) |->
                   PadStart(ToBinaryString(bytes[i]), 8, "0")])
        chunks == (Len(bits) + 4) \div 5
        Chunk(k) == Slice(bits, 5 * (k - 1), 5 * (k - 1) + 5)
    IN Concat([k \in 1..chunks |->
                  IF Len(Chunk(k)) = 5
                  THEN <<base32Chars[ParseBinary(Chunk(k)) + 1]>>
                  ELSE <<>>])

\* ---- bytesToBase32 and base32ToBytes ----
MaxBytes == 10

ByteValues == {7, 214}

InitCodec ==
    /\ EngineIdle
    /\ pc = "input"
    /\ arg \in UNION {[1..n -> ByteValues] : n \in 0..MaxBytes}
    /\ res = <<>>

\* bytesToBase32(bytes)
BytesToBase32Call ==
    /\ pc = "input"
    /\ res' = bytesToBase32(arg)
    /\ pc' = "encoded"
    /\ UNCHANGED <<clock, config, genWin, verWin, gen, ver, ticks, again>>
    /\ UNCHANGED <<rlVars, arg, protoVars>>

\* base32ToBytes(base32) of the string bytesToBase32 returned
Base32ToBytesCall ==
    /\ pc = "encoded"
    /\ base32ToBytesError(res) = "none"
    /\ res' = base32ToBytes(res)
    /\ pc' = "decoded"
    /\ UNCHANGED <<clock, config, genWin, verWin, gen, ver, ticks, again>>
    /\ UNCHANGED <<rlVars, arg, protoVars>>

NextCodec ==
    \/ BytesToBase32Call
    \/ Base32ToBytesCall

SpecCodec == InitCodec /\ [][NextCodec]_vars

\* C22: for every byte sequence b whose length is a multiple of 5,
\* base32ToBytes(bytesToBase32(b)) = b.
C22_Base32RoundTrip ==
    (pc = "decoded" /\ Len(arg) % 5 = 0) => res = arg

C22_Witness ==
    /\ pc = "decoded"
    /\ Len(arg) = 10
    /\ res = arg
    /\ arg[1] = 7 /\ arg[2] = 214 /\ arg[10] = 7

\* ---------------------------------------------------------------------
\* The command line tool: totp-web verify
\* ---------------------------------------------------------------------
\* the value of a number that is not a number
NaN == "NaN"

\* the length of the longest prefix of decimal digits of a string
RECURSIVE DigitPrefix(_)
DigitPrefix(str) ==
    IF Len(str) = 0 \/ IndexOf(DecimalCharSet, str[1]) < 0 THEN 0
    ELSE 1 + DigitPrefix(Tail(str))

\* parseInt(str, 10)
ParseInt(str) ==
    LET negative == Len(str) > 0 /\ str[1] = "-"
        body == IF negative THEN Tail(str) ELSE str
        n == DigitPrefix(body)
    IN IF n = 0 THEN NaN
       ELSE IF negative THEN 0 - DecimalValue(SubSeq(body, 1, n))
       ELSE DecimalValue(SubSeq(body, 1, n))

\* str.replace('--', ''): the first occurrence of two dashes is removed
ReplaceDashes(str) ==
    LET hits == {i \in 1..(Len(str) - 1) : str[i] = "-" /\ str[i + 1] = "-"}
    IN IF hits = {} THEN str
       ELSE LET i == CHOOSE i \in hits : \A j \in hits : i <= j
            IN SubSeq(str, 1, i - 1) \o SubSeq(str, i + 2, Len(str))

\* the text of the names of the hash algorithms
AlgorithmText ==
    [a \in {"SHA-1", "SHA-256", "SHA-512"} |->
        IF a = "SHA-1" THEN <<"S", "H", "A", "-", "1">>
        ELSE IF a = "SHA-256" THEN <<"S", "H", "A", "-", "2", "5", "6">>
        ELSE <<"S", "H", "A", "-", "5", "1", "2">>]

\* the algorithm a text names, the text itself if it names none
AlgorithmNamed(text) ==
    IF \E a \in DOMAIN AlgorithmText : AlgorithmText[a] = text
    THEN CHOOSE a \in DOMAIN AlgorithmText : AlgorithmText[a] = text
    ELSE text

\* args[i] with a 0-based index, the text "undefined" past the end
ArgAt(args, i) == IF i < Len(args) THEN args[i + 1] ELSE UndefinedText

\* the loop of handleVerify over args[i], args[i + 1] from index i on:
\* the options it leaves, and the exception it ends with
RECURSIVE VerifyFlagsFrom(_, _, _)
VerifyFlagsFrom(args, i, options) ==
    IF i >= Len(args) THEN [options |-> options, threw |-> "none"]
    ELSE LET key == ReplaceDashes(args[i + 1])
             value == ArgAt(args, i + 1)
             given == i + 1 < Len(args)
         IN IF key = <<"a", "l", "g", "o", "r", "i", "t", "h", "m">>
            THEN IF given
                 THEN VerifyFlagsFrom(args, i + 2,
                          With(options, "algorithm",
                               AlgorithmNamed([k \in 1..Len(value) |->
                                                  UpperCaseOf[value[k]]])))
                 ELSE [options |-> options, threw |-> "TypeError"]
            ELSE IF key = <<"d", "i", "g", "i", "t", "s">>
            THEN VerifyFlagsFrom(args, i + 2,
                                 With(options, "digits", ParseInt(value)))
            ELSE IF key = <<"p", "e", "r", "i", "o", "d">>
            THEN VerifyFlagsFrom(args, i + 2,
                                 With(options, "period", ParseInt(value)))
            ELSE IF key = <<"c", "h", "a", "r", "S", "e", "t">>
            THEN VerifyFlagsFrom(args, i + 2,
                                 IF given THEN With(options, "charSet", value)
                                 ELSE options)
            ELSE IF key = <<"w", "i", "n", "d", "o", "w">>
            THEN VerifyFlagsFrom(args, i + 2,
                                 With(options, "window", ParseInt(value)))
            ELSE VerifyFlagsFrom(args, i + 2, options)

\* the options handleVerify(args) passes to verifyTOTP: the secret is
\* args[1] and the flags are read from args[2] on
handleVerifyOptions(args) ==
    VerifyFlagsFrom(args, 2, [secret |-> ArgAt(args, 1)])

\* what handleVerify(args) prints when Date.now() = t
handleVerify(args, t) ==
    LET token == ArgAt(args, 0)
        parsed == handleVerifyOptions(args)
    IN IF parsed.threw # "none" THEN "Unhandled rejection"
       ELSE IF verifyTOTPError(token, parsed.options) # "none"
       THEN "Error verifying TOTP"
       ELSE IF verifyTOTP(token, parsed.options, t)
       THEN "Verification result: Valid"
       ELSE "Verification result: Invalid"

\* the configurations a user of the tool has in mind
CliConfigs ==
    [secret : {<<"j", "b", "-", "s", "w", "y", "3", "d", "q", "=">>},
     algorithm : {"SHA-256"},
     digits : {8},
     period : {15},
     charSet : {AlphaCharSet},
     window : {0}]

\* the words "--f <value>" of the flags of a configuration
FlagWords(options) ==
    (IF Has(options, "algorithm")
     THEN <<<<"-", "-", "a", "l", "g", "o", "r", "i", "t", "h", "m">>,
            [k \in 1..Len(AlgorithmText[options["algorithm"]]) |->
                AlgorithmText[options["algorithm"]][k]]>>
     ELSE <<>>)
    \o (IF Has(options, "digits")
        THEN <<<<"-", "-", "d", "i", "g", "i", "t", "s">>, NumberToString(options["digits"])>>
        ELSE <<>>)
    \o (IF Has(options, "period")
        THEN <<<<"-", "-", "p", "e", "r", "i", "o", "d">>, NumberToString(options["period"])>>
        ELSE <<>>)
    \o (IF Has(options, "charSet")
        THEN <<<<"-", "-", "c", "h", "a", "r", "S", "e", "t">>, options["charSet"]>>
        ELSE <<>>)
    \o (IF Has(options, "window")
        THEN <<<<"-", "-", "w", "i", "n", "d", "o", "w">>, NumberToString(options["window"])>>
        ELSE <<>>)

\* the arguments after "verify": the secret follows --secret, as the help
\* text has it, or stands alone in second place
VerifyArgs(token, options, layout) ==
    <<token>>
    \o (IF layout = "flag" THEN <<<<"-", "-", "s", "e", "c", "r", "e", "t">>, options["secret"]>>
        ELSE <<options["secret"]>>)
    \o FlagWords(options)

\* totp-web verify <arg>: the user types the code an authenticator shows
\* for the configuration, or another token
InitCli ==
    /\ LimiterIdle
    /\ clock \in ClockStarts
    /\ \E full \in CliConfigs,
          fields \in SUBSET {"algorithm", "digits", "period", "charSet", "window"} :
          config = Restrict(full, fields \cup {"secret"})
    /\ genWin = NoWindow
    /\ verWin = NoWindow
    /\ gen = NoResult
    /\ ver = NoVerdict
    /\ ticks = 0
    /\ again = NoResult
    /\ pc = "typed"
    /\ \E layout \in {"flag", "positional"},
          token \in TypedTokens
                      \cup {generateTOTP(Restrict(config,
                                             DOMAIN config \ {"window"}),
                                         clock, <<>>).token} :
          arg = VerifyArgs(token, config, layout)
    /\ res = <<>>

\* main() dispatches to handleVerify(args.slice(1))
HandleVerifyCall ==
    /\ pc = "typed"
    /\ res' = handleVerify(arg, clock)
    /\ pc' = "printed"
    /\ UNCHANGED <<clock, config, genWin, verWin, gen, ver, ticks, again>>
    /\ UNCHANGED <<rlVars, arg, protoVars>>

NextCli == HandleVerifyCall

SpecCli == InitCli /\ [][NextCli]_vars

\* C23: totp-web verify <code> --secret <s> with its flags prints Valid
\* exactly when verifyTOTP(code, {secret: s, ...flags}) is true.
C23_CliVerifies ==
    (pc = "printed" /\ arg[2] = <<"-", "-", "s", "e", "c", "r", "e", "t">>)
        => (res = "Verification result: Valid"
               <=> verifyTOTP(arg[1], config, clock))

\* ---------------------------------------------------------------------
\* TOTPUtils.validateConfiguration
\* ---------------------------------------------------------------------
\* validateConfiguration(options): a field is examined only if its value
\* is truthy
validateConfiguration(options) ==
    LET errors ==
          (IF /\ Has(options, "algorithm") /\ options["algorithm"] # ""
              /\ options["algorithm"] \notin {"SHA-1", "SHA-256", "SHA-512"}
           THEN <<"Algorithm must be one of: SHA-1, SHA-256, SHA-512">>
           ELSE <<>>)
          \o (IF /\ Has(options, "digits") /\ options["digits"] # 0
                 /\ (options["digits"] < 4 \/ options["digits"] > 8)
              THEN <<"Digits must be between 4 and 8">>
              ELSE <<>>)
          \o (IF /\ Has(options, "period") /\ options["period"] # 0
                 /\ (options["period"] < 15 \/ options["period"] > 60)
              THEN <<"Period must be between 15 and 60 seconds">>
              ELSE <<>>)
          \o (IF /\ Has(options, "charSet") /\ options["charSet"] # <<>>
                 /\ Len(options["charSet"]) < 10
              THEN <<"Character set must have at least 10 characters">>
              ELSE <<>>)
    IN [isValid |-> Len(errors) = 0, errors |-> errors]

\* ---- validateConfiguration ----
NineCharSet == <<"0","1","2","3","4","5","6","7","8">>

ValidatedConfigs ==
    [algorithm : {"", "MD5", "SHA-1", "SHA-512"},
     digits : {-1, 0, 3, 4, 8, 9},
     period : {0, 14, 15, 60, 61},
     charSet : {<<>>, NineCharSet, DecimalCharSet, AlphaCharSet}]

InitValidate ==
    /\ EngineIdle
    /\ pc = "input"
    /\ \E full \in ValidatedConfigs,
          fields \in SUBSET {"algorithm", "digits", "period", "charSet"} :
          arg = Restrict(full, fields)
    /\ res = <<>>

\* TOTPUtils.validateConfiguration(options)
ValidateConfigurationCall ==
    /\ pc = "input"
    /\ res' = validateConfiguration(arg)
    /\ pc' = "output"
    /\ UNCHANGED <<clock, config, genWin, verWin, gen, ver, ticks, again>>
    /\ UNCHANGED <<rlVars, arg, protoVars>>

NextValidate == ValidateConfigurationCall

SpecValidate == InitValidate /\ [][NextValidate]_vars

\* a supplied field of the options is outside its permitted range
OutOfRange(options) ==
    \/ Has(options, "digits")
          /\ (options["digits"] < 4 \/ options["digits"] > 8)
    \/ Has(options, "period")
          /\ (options["period"] < 15 \/ options["period"] > 60)
    \/ Has(options, "charSet") /\ Len(options["charSet"]) < 10
    \/ Has(options, "algorithm")
          /\ options["algorithm"] \notin {"SHA-1", "SHA-256", "SHA-512"}

\* C24: validateConfiguration returns isValid = false with at least one
\* error whenever a supplied digits, period, charSet or algorithm is out
\* of range, and isValid = true with no errors otherwise.
C24_ValidationComplete ==
    pc = "output" =>
        IF OutOfRange(arg)
        THEN ~res.isValid /\ Len(res.errors) >= 1
        ELSE res.isValid /\ res.errors = <<>>

\* ---------------------------------------------------------------------
\* The second implementation, src/totp.ts: generateTOTP and verifyTOTP
\* ---------------------------------------------------------------------
DEFAULT_OPTIONS ==
    [secret |-> <<>>, algorithm |-> "SHA-1", digits |-> 6, period |-> 30,
     window |-> 1]

\* { ...DEFAULT_OPTIONS, ...options }
TsOpts(options) == options @@ DEFAULT_OPTIONS

\* opts after `if (!opts.secret) opts.secret = bytesToBase32(random bytes)`
TsWithSecret(options, randomBytes) ==
    LET opts == TsOpts(options)
    IN IF opts["secret"] = <<>>
       THEN With(opts, "secret", bytesToBase32(randomBytes))
       ELSE opts

\* view.setBigInt64(0, BigInt(counter), false) for 0 <= counter < 2^31
TsCounterBytes(counter) ==
    [k \in 1..8 |-> IF k <= 4 THEN 0
                    ELSE (counter \div (256 ^ (8 - k))) % 256]

\* the token generateTOTP computes for the counter it read
TsTokenOf(secret, counter, algorithm, digits) ==
    DecimalToken(HmacSign(algorithm, base32ToBytes(secret),
                          TsCounterBytes(counter)),
                 digits)

\* Math.floor(Date.now() / 1000 / opts.period) when Date.now() = t
TsCounter(opts, t) == t \div (1000 * opts["period"])

\* opts.period - (Math.floor(Date.now() / 1000) % opts.period)
TsRemainingSeconds(opts, t) ==
    opts["period"] - ((t \div 1000) % opts["period"])

\* the code of TOTPError generateTOTP throws for opts, "none" if it returns
TsGenerateError(opts) == base32ToBytesError(opts["secret"])

\* /^\d+$/.test(token)
TsAllDigits(token) ==
    /\ Len(token) >= 1
    /\ \A i \in 1..Len(token) : IndexOf(DecimalCharSet, token[i]) >= 0

\* the code of TOTPError verifyTOTP throws before its loop, "none" if it
\* enters the loop
TsVerifyError(token, opts) ==
    IF opts["secret"] = <<>> THEN "INVALID_SECRET"
    ELSE IF ~TsAllDigits(token) THEN "INVALID_TOKEN"
    ELSE IF Len(token) # opts["digits"] THEN "INVALID_TOKEN"
    ELSE "none"

\* ---- a caller of src/totp.ts, with the clock running during the awaits
TsConfigs ==
    [secret : {<<"J", "B", "S", "W", "Y", "3", "D", "Q">>,
               <<"j", "b", "-", "1">>},
     algorithm : {"SHA-256"},
     digits : {8},
     period : {15}]

TsTypedTokens == TypedTokens \cup {<<"0", "0", "0", "0", "0", "0">>}

InitTs ==
    /\ LimiterIdle
    /\ PureIdle
    /\ clock \in ClockStarts
    /\ \E full \in TsConfigs,
          fields \in SUBSET {"secret", "algorithm", "digits", "period"} :
          config = Restrict(full, fields)
    /\ genWin = NoWindow
    /\ verWin \in VerWindows
    /\ pc = "begin"
    /\ gen = NoResult
    /\ ver = NoVerdict
    /\ ticks = 0
    /\ again = NoResult

\* generateTOTP(config) up to its first await: the secret is resolved and
\* decoded and the counter is read off the clock (lines 75-86); the token
\* is the one the HMAC of that counter gives
TsGenerateBegin ==
    /\ pc = "begin"
    /\ \E randomBytes \in Draws(config) :
          LET opts == TsWithSecret(config, randomBytes)
          IN IF TsGenerateError(opts) # "none"
             THEN /\ gen' = [NoResult EXCEPT !.time = clock,
                                             !.threw = TsGenerateError(opts)]
                  /\ pc' = "rejected"
             ELSE /\ gen' = [token |-> TsTokenOf(opts["secret"],
                                                 TsCounter(opts, clock),
                                                 opts["algorithm"],
                                                 opts["digits"]),
                             secret |-> opts["secret"],
                             remainingSeconds |-> 0,
                             time |-> clock,
                             random |-> randomBytes,
                             threw |-> "none"]
                  /\ pc' = "signing"
    /\ UNCHANGED <<clock, config, genWin, verWin, ver, ticks, again>>
    /\ UNCHANGED <<rlVars, pureVars, protoVars>>

\* generateTOTP(config) after its awaits: the clock is read again for
\* remainingSeconds and the result is returned (lines 102-116)
TsGenerateEnd ==
    /\ pc = "signing"
    /\ gen' = [token |-> gen.token,
               secret |-> gen.secret,
               remainingSeconds |-> TsRemainingSeconds(TsOpts(config), clock),
               time |-> gen.time,
               endTime |-> clock,
               random |-> gen.random,
               threw |-> "none"]
    /\ pc' = "returned"
    /\ UNCHANGED <<clock, config, genWin, verWin, ver, ticks, again>>
    /\ UNCHANGED <<rlVars, pureVars, protoVars>>

\* time passes while a call is suspended on an await, or between calls
TsClockTick ==
    /\ pc \in {"signing", "returned", "verifying"}
    /\ ticks < MaxClockSteps
    /\ \E d \in ClockSteps : clock' = clock + d
    /\ ticks' = ticks + 1
    /\ UNCHANGED <<config, genWin, verWin, pc, gen, ver, again>>
    /\ UNCHANGED <<rlVars, pureVars, protoVars>>

\* verifyTOTP(token, { ...config, window: verWin }) up to its loop (lines
\* 127-142): of a typed token, or of the generated token with the secret
\* generateTOTP returned
TsVerifyBegin(token) ==
    /\ \/ pc = "begin" /\ token \in TsTypedTokens
       \/ pc = "returned" /\ token = gen.token
    /\ LET opts == TsOpts(WithWindow(IF pc = "returned"
                                     THEN With(config, "secret", gen.secret)
                                     ELSE config,
                                     verWin))
           err == TsVerifyError(token, opts)
           over == err # "none" \/ 0 - opts["window"] > opts["window"]
       IN /\ ver' = [result |-> FALSE,
                     time |-> clock,
                     endTime |-> clock,
                     token |-> token,
                     secret |-> opts["secret"],
                     i |-> 0 - opts["window"],
                     threw |-> err]
          /\ pc' = IF over THEN "settled" ELSE "verifying"
    /\ UNCHANGED <<clock, config, genWin, verWin, gen, ticks, again>>
    /\ UNCHANGED <<rlVars, pureVars, protoVars>>

\* one iteration of the loop of verifyTOTP (lines 142-148): generateTOTP
\* is called with the options of the caller, reads the clock and its
\* token is compared; the loop variable is not passed on
TsVerifyIteration ==
    /\ pc = "verifying"
    /\ LET opts == TsOpts(WithWindow(With(config, "secret", ver.secret),
                                     verWin))
           err == TsGenerateError(opts)
           matches == /\ err = "none"
                      /\ TsTokenOf(opts["secret"], TsCounter(opts, clock),
                                   opts["algorithm"], opts["digits"])
                            = ver.token
           last == ver.i + 1 > opts["window"]
       IN /\ ver' = [ver EXCEPT !.result = matches,
                                !.time = IF ver.i = 0 - opts["window"]
                                         THEN clock ELSE @,
                                !.endTime = clock,
                                !.i = ver.i + 1,
                                !.threw = err]
          /\ pc' = IF err # "none" \/ matches \/ last THEN "settled"
                   ELSE "verifying"
    /\ UNCHANGED <<clock, config, genWin, verWin, gen, ticks, again>>
    /\ UNCHANGED <<rlVars, pureVars, protoVars>>

NextTs ==
    \/ TsGenerateBegin
    \/ TsGenerateEnd
    \/ TsClockTick
    \/ \E token \in TsTypedTokens \cup {gen.token} : TsVerifyBegin(token)
    \/ TsVerifyIteration

SpecTs == InitTs /\ [][NextTs]_vars

\* the code src/totp.ts gives the secret verifyTOTP was called with for
\* counter c
TsCodeAt(secret, c) == TsTokenOf(secret, c, Algorithm, Digits)

\* every iteration of the verification read the clock in one period
OnePeriodVerification == ver.time \div PeriodMs = ver.endTime \div PeriodMs

\* C25: verifyTOTP of src/totp.ts with window W accepts the token of
\* each of the 2W+1 counters floor(now / period) + i, i in -W..W.
C25_TsWindowAccepted ==
    ( /\ pc = "settled" /\ ver.threw = "none"
      /\ OnePeriodVerification
      /\ \E i \in (0 - VerWindow)..VerWindow :
            ver.token = TsCodeAt(ver.secret, ver.time \div PeriodMs + i) )
    => ver.result

\* C30: the token generateTOTP of src/totp.ts returns is the code of the
\* period in which its remainingSeconds was computed.
C30_TsResultConsistent ==
    pc = "returned" =>
        /\ gen.token = TsCodeAt(gen.secret, gen.endTime \div PeriodMs)
        /\ gen.remainingSeconds
              = PeriodSeconds - ((gen.endTime \div 1000) % PeriodSeconds)

\* ---------------------------------------------------------------------
\* The caller protocol: handleVerify of the demo, verifyUserInput of the
\* README, several invocations in flight on one limiter
\* ---------------------------------------------------------------------
\* Math.ceil(n / 1000) for n >= 0
CeilSeconds(n) == (n + 999) \div 1000

\* new RateLimiter(maxAttempts, windowMs) and no handler started
InitProto ==
    /\ attempts = EmptyMap
    /\ maxAttempts \in 1..MaxAttemptsBound
    /\ windowMs \in 1..MaxWindowMs
    /\ now = 0
    /\ ret = NoCall
    /\ admitted = 0
    /\ limitedCalls = 0
    /\ admittedBy = {}
    /\ origin = "none"
    /\ priorLimited = 0
    /\ admitTimes = <<>>
    /\ TotpIdle
    /\ PureIdle
    /\ HandlersIdle

\* handleVerify returns at once: no secret or no token was entered
HandlerSkip(h) ==
    /\ handler[h].pc = "idle"
    /\ handler' = [handler EXCEPT ![h].pc = "skipped"]
    /\ UNCHANGED <<rlVars, totpVars, pureVars, invoked, succeeded>>

\* verifyTOTP is invoked whatever isRateLimited returned
HandlerEnter_noReturn(h) ==
    LET r == isRateLimited(attempts, Observed, now)
        started == WindowStartedBy(attempts, Observed, now)
    IN /\ handler[h].pc = "idle"
       /\ attempts' = r.attempts
       /\ ret' = [op |-> "isRateLimited", key |-> Observed,
                  limited |-> r.limited, num |-> 0]
       /\ Observe(h, started, r.limited)
       /\ handler' = [handler EXCEPT ![h] =
             [pc |-> "verifying",
              limited |-> r.limited,
              shown |-> 0]]
       /\ invoked' = (IF started = "same" THEN invoked ELSE 0) + 1
       /\ UNCHANGED <<maxAttempts, windowMs, now, succeeded>>
       /\ UNCHANGED <<totpVars, pureVars>>

\* handleVerify up to its await: isRateLimited(key) is called; if it
\* returns true the time until reset is shown and the handler returns,
\* otherwise verifyTOTP is invoked and the handler is suspended
HandlerEnter(h) ==
    LET r == isRateLimited(attempts, Observed, now)
        started == WindowStartedBy(attempts, Observed, now)
    IN /\ handler[h].pc = "idle"
       /\ attempts' = r.attempts
       /\ ret' = [op |-> "isRateLimited", key |-> Observed,
                  limited |-> r.limited, num |-> 0]
       /\ Observe(h, started, r.limited)
       /\ handler' = [handler EXCEPT ![h] =
             [pc |-> IF r.limited THEN "refused" ELSE "verifying",
              limited |-> r.limited,
              shown |-> IF r.limited
                        THEN CeilSeconds(getTimeUntilReset(r.attempts,
                                                           Observed, now))
                        ELSE 0]]
       /\ invoked' = (IF started = "same" THEN invoked ELSE 0)
                         + (IF r.limited THEN 0 ELSE 1)
       /\ UNCHANGED <<maxAttempts, windowMs, now, succeeded>>
       /\ UNCHANGED <<totpVars, pureVars>>

\* handleVerify after its await: verifyTOTP has returned true or false or
\* has thrown; the limiter is reset only if it returned true, and the
\* remaining attempts are shown unless it threw
HandlerResume(h, outcome) ==
    LET after == IF outcome = "valid" THEN reset(attempts, Observed, now)
                 ELSE attempts
    IN /\ handler[h].pc = "verifying"
       /\ attempts' = after
       /\ IF outcome = "valid"
          THEN /\ ret' = [op |-> "reset", key |-> Observed,
                          limited |-> FALSE, num |-> 0]
               /\ admitted' = 0
               /\ limitedCalls' = 0
               /\ admittedBy' = {}
               /\ origin' = "reset"
               /\ priorLimited' = limitedCalls
               /\ admitTimes' = <<>>
               /\ invoked' = 0
               /\ succeeded' = TRUE
          ELSE UNCHANGED <<ret, admitted, limitedCalls, admittedBy, origin,
                           priorLimited, admitTimes, invoked, succeeded>>
       /\ handler' = [handler EXCEPT ![h] =
             [pc |-> "done",
              limited |-> FALSE,
              shown |-> IF outcome = "error" THEN 0
                        ELSE getRemainingAttempts(after, Observed, now)]]
       /\ UNCHANGED <<maxAttempts, windowMs, now>>
       /\ UNCHANGED <<totpVars, pureVars>>

\* what an awaited verifyTOTP may do
Outcomes == {"valid", "invalid", "error"}

NextProto ==
    \/ \E h \in Handlers : HandlerSkip(h)
    \/ \E h \in Handlers : HandlerEnter(h)
    \/ \E h \in Handlers, outcome \in Outcomes : HandlerResume(h, outcome)
    \/ Tick

SpecProto == InitProto /\ [][NextProto]_vars

\* the handlers suspended on the awaited verifyTOTP
InFlight == {h \in Handlers : handler[h].pc = "verifying"}

\* C26: in the caller protocol verifyTOTP is never invoked for a call in
\* which isRateLimited returned true, and as long as every verification
\* fails at most maxAttempts verifyTOTP invocations happen within one
\* limiter window, however many handlers are suspended together.
C26_VerifyOnlyWhenAdmitted ==
    /\ \A h \in InFlight : ~handler[h].limited
    /\ ~succeeded => invoked <= maxAttempts

C26_Witness ==
    /\ ~succeeded
    /\ maxAttempts = 2 /\ invoked = 2
    /\ Cardinality(InFlight) = 2
    /\ \E h \in Handlers : handler[h].pc = "refused" /\ handler[h].shown = 1
    /\ Unexpired

\* ---------------------------------------------------------------------
\* TOTPUtils.testConfiguration
\* ---------------------------------------------------------------------
\* option objects with omitted, zero, empty and ordinary fields
TestedConfigs ==
    [secret : {<<"j", "b", "-", "s", "w", "y", "3", "d", "q", "=">>},
     algorithm : {"SHA-256"},
     digits : {0, 4, 8, 9},
     period : {0, 15, 60},
     charSet : {<<>>, NineCharSet, AlphaCharSet, DecimalCharSet}]

InitTest ==
    /\ LimiterIdle
    /\ clock \in ClockStarts
    /\ \E full \in TestedConfigs, fields \in SUBSET OptionalFields :
          config = Restrict(full, fields)
    /\ genWin = NoWindow
    /\ verWin = NoWindow
    /\ pc = "start"
    /\ gen = NoResult
    /\ ver = NoVerdict
    /\ ticks = 0
    /\ again = NoResult
    /\ arg = <<>>
    /\ res = validateConfiguration(config)

\* testConfiguration(config) up to its second await: generateTOTP(options)
\* returns, or throws and false is returned from the catch
TestGenerateCall ==
    /\ pc = "start"
    /\ \E randomBytes \in Draws(config) :
          gen' = GenerateOutcome(config, clock, randomBytes)
    /\ pc' = IF gen'.threw = "none" THEN "generated" ELSE "tested"
    /\ arg' = IF gen'.threw = "none" THEN arg ELSE <<FALSE>>
    /\ UNCHANGED <<clock, config, genWin, verWin, ver, ticks, again>>
    /\ UNCHANGED <<rlVars, res, protoVars>>

\* testConfiguration(config) after its second await: what
\* verifyTOTP(result.token, { ...options, secret: result.secret })
\* returned is returned, false if it threw
TestVerifyCall ==
    /\ pc = "generated"
    /\ LET options == With(config, "secret", gen.secret)
           err == verifyTOTPError(gen.token, options)
       IN ver' = [result |-> IF err = "none"
                             THEN verifyTOTP(gen.token, options, clock)
                             ELSE FALSE,
                  time |-> clock,
                  token |-> gen.token,
                  threw |-> err]
    /\ arg' = <<ver'.result>>
    /\ pc' = "tested"
    /\ UNCHANGED <<clock, config, genWin, verWin, gen, ticks, again>>
    /\ UNCHANGED <<rlVars, res, protoVars>>

NextTest ==
    \/ TestGenerateCall
    \/ ClockTick
    \/ TestVerifyCall

SpecTest == InitTest /\ [][NextTest]_vars

\* the period generateTOTP works with: options.period || 30
GeneratedPeriodMs == 1000 * OrNumber(config, "period", 30)

\* C27: for every options object that validateConfiguration accepts,
\* testConfiguration(options) returns true when generateTOTP and
\* verifyTOTP read the clock within one period.
C27_TestConfigurationPasses ==
    ( /\ pc = "tested"
      /\ res.isValid
      /\ gen.threw = "none"
      /\ gen.time \div GeneratedPeriodMs = ver.time \div GeneratedPeriodMs )
    => arg = <<TRUE>>

\* ---------------------------------------------------------------------
\* Queries of the RateLimiter
\* ---------------------------------------------------------------------
\* C28: whenever getTimeUntilReset(key) returns 0, an isRateLimited(key)
\* call made at the same instant returns false.
C28_ZeroWaitAdmits ==
    [][ ( /\ ret.op = "getTimeUntilReset" /\ ret.num = 0
          /\ ret'.op = "isRateLimited" /\ ret'.key = ret.key
          /\ now' = now )
        => ~ret'.limited ]_vars

\* C29: getRemainingAttempts and getTimeUntilReset create no entry and
\* leave every entry's count and window start unchanged, so that an
\* isRateLimited call made after a query returns, and leaves, what it
\* would have without the query.
C29_QueriesReadOnly ==
    [][ ret'.op \in {"getRemainingAttempts", "getTimeUntilReset"} =>
          /\ attempts' = attempts
          /\ maxAttempts' = maxAttempts /\ windowMs' = windowMs
          /\ \A k \in Keys :
                isRateLimited(attempts', k, now')
                    = isRateLimited(attempts, k, now) ]_vars

C29_Witness ==
    /\ ret.op \in {"getRemainingAttempts", "getTimeUntilReset"}
    /\ ret.key = Observed
    /\ Observed \in DOMAIN attempts
    /\ now - attempts[Observed].timestamp > windowMs
    /\ attempts[Observed].count = maxAttempts
    /\ limitedCalls >= 1
    /\ DOMAIN attempts = {Observed}
====
